---- MODULE Spec2Model ----
(***************************************************************************)
(* A model of fast_limiter (src/rate_limiter.py): the fixed-window limiter *)
(* in process (InMemoryRateLimiter) and on Redis (RedisRateLimiter), the   *)
(* token bucket (TokenBucketRateLimiter) over a storage backend, the       *)
(* jittered wrapper (FixedWindowRateLimiter) and the rate_limit decorator. *)
(*                                                                         *)
(* Units.  time.time() is a float; the model's clock counts ticks of       *)
(* 1/TicksPerSec second, so a window of w seconds is w * TicksPerSec       *)
(* ticks and int(x) of a duration of d ticks is d \div TicksPerSec.        *)
(* Token counts are reals; the model keeps them exactly, as integers in    *)
(* units of 1 / (2 * TicksPerSec * window_seconds) token (TokenUnit), so   *)
(* that every refill over a whole number of ticks and every half-token     *)
(* capacity is an integer.  Float rounding is not modelled.                *)
(***************************************************************************)
EXTENDS Integers, Sequences, FiniteSets, TLC

\* ---- bounds of the model ------------------------------------------------
\* ticks of the clock per second, and the last tick of a run
TicksPerSec == 2
MaxTick == 7
\* the ticks a caller may wait between two steps of one call (for the reply of
\* a round trip, for the thread to be scheduled, for the wrapped operation)
MaxWait == 1

\* ---- the inputs ----------------------------------------------------------
Identifiers == {"A", "B"}
Limits == {1, 2}
Windows == {1, 2}
\* bucket_capacity in half tokens: None (written 0), 0.5 and 1.5 tokens
Capacities == {0, 1, 3}
\* jitter_seconds: none, a negative one (taken as none, line 220) and one second
Jitters == {-1, 0, 1}

VARIABLES
    rate_limiter,      \* which limiter class the configuration holds
    storage_backend,   \* the backend a TokenBucket / FixedWindow limiter wraps
    requests_limit,    \* configured requests_limit
    window_seconds,    \* configured window_seconds
    bucket_capacity,   \* TokenBucketRateLimiter.bucket_capacity (half tokens, 0 = None)
    jitter_seconds,    \* FixedWindowRateLimiter.jitter_seconds
    now,               \* time.time(), in ticks
    request_records,   \* InMemoryRateLimiter.request_records: identifier -> (count, start)
    data_store,        \* InMemoryRateLimiter.data_store: key -> (value, ttl)
    redis,             \* the Redis keyspace: key -> (value as bytes, expiry time)
    decision,          \* the check made by the step just taken, and what it returned
    gate,              \* the decorated call made by the step just taken, and how it ended
    io,                \* the get_data / set_data call made by the step just taken
    written,           \* history: key -> the value and expiry tick of the last set_data on it
    admitted,          \* history: identifier -> its window record's start, how the record
                       \* was opened, the checks admitted into it, whether one was denied
    threads,           \* concurrent callers of check_rate_limit: where each one is
    observed,          \* the identifiers whose checks the two histories below follow
    latest,            \* history: identifier -> when its latest check was made and
                       \* what it returned
    admitted_at        \* history: identifier -> the ticks, within the last window, at
                       \* which a fixed-window limiter admitted a check for it

config == <<rate_limiter, storage_backend, requests_limit, window_seconds,
            bucket_capacity, jitter_seconds>>
stores == <<request_records, data_store, redis>>

\* ---- Python dicts as partial functions -------------------------------------
EmptyDict == [k \in {} |-> 0]

Put(d, key, value) == [k \in DOMAIN d \cup {key} |-> IF k = key THEN value ELSE d[k]]

\* ---- time -------------------------------------------------------------------
\* seconds -> ticks
Ticks(seconds) == seconds * TicksPerSec

\* int(x) for a duration of d ticks: truncation toward zero
IntSeconds(d) == IF d >= 0 THEN d \div TicksPerSec ELSE -((-d) \div TicksPerSec)

\* ---- values ---------------------------------------------------------------
\* A Python value as the limiters see it: None, a number (int or float), the
\* bytes / str holding a number's text, or the tuple (number, ttl).
None == [tag |-> "None", v |-> 0, ttl |-> 0]
Num(n) == [tag |-> "num", v |-> n, ttl |-> 0]
Bytes(n) == [tag |-> "bytes", v |-> n, ttl |-> 0]
Str(n) == [tag |-> "str", v |-> n, ttl |-> 0]
Tuple(n, ttl) == [tag |-> "tuple", v |-> n, ttl |-> ttl]

\* int(b) / float(b) of the text of a number
Parse(b) == b.v

\* ---- InMemoryRateLimiter ---------------------------------------------------
\* lines 56-57: what a check reads for the identifier
InMemoryRead(records, identifier) ==
    IF identifier \in DOMAIN records
    THEN [present |-> TRUE, count |-> records[identifier].count,
          start |-> records[identifier].start]
    ELSE [present |-> FALSE, count |-> 0, start |-> 0]

\* InMemoryDecide with the first check of an identifier storing no record
InMemoryDecideNoStore(seen, limit, window, current_time) ==
    IF seen.present
    THEN IF current_time - seen.start > Ticks(window)
         THEN [branch |-> "reset", write |-> TRUE, count |-> 1, start |-> current_time,
               allowed |-> TRUE, retry_after |-> 0]
         ELSE IF seen.count >= limit
         THEN [branch |-> "deny", write |-> FALSE, count |-> seen.count, start |-> seen.start,
               allowed |-> FALSE,
               retry_after |-> IntSeconds(seen.start + Ticks(window) - current_time)]
         ELSE [branch |-> "incr", write |-> TRUE, count |-> seen.count + 1, start |-> seen.start,
               allowed |-> TRUE, retry_after |-> 0]
    ELSE [branch |-> "first", write |-> FALSE, count |-> 1, start |-> current_time,
          allowed |-> TRUE, retry_after |-> 0]

\* InMemoryDecide with a full window that lets one more check in (> for >=)
InMemoryDecideOneMore(seen, limit, window, current_time) ==
    IF seen.present
    THEN IF current_time - seen.start > Ticks(window)
         THEN [branch |-> "reset", write |-> TRUE, count |-> 1, start |-> current_time,
               allowed |-> TRUE, retry_after |-> 0]
         ELSE IF seen.count > limit
         THEN [branch |-> "deny", write |-> FALSE, count |-> seen.count, start |-> seen.start,
               allowed |-> FALSE,
               retry_after |-> IntSeconds(seen.start + Ticks(window) - current_time)]
         ELSE [branch |-> "incr", write |-> TRUE, count |-> seen.count + 1, start |-> seen.start,
               allowed |-> TRUE, retry_after |-> 0]
    ELSE [branch |-> "first", write |-> TRUE, count |-> 1, start |-> current_time,
          allowed |-> TRUE, retry_after |-> 0]

\* InMemoryDecide with the limit compared before the age of the window
InMemoryDecideLimitFirst(seen, limit, window, current_time) ==
    IF seen.present
    THEN IF seen.count >= limit
         THEN [branch |-> "deny", write |-> FALSE, count |-> seen.count, start |-> seen.start,
               allowed |-> FALSE,
               retry_after |-> IntSeconds(seen.start + Ticks(window) - current_time)]
         ELSE IF current_time - seen.start > Ticks(window)
         THEN [branch |-> "reset", write |-> TRUE, count |-> 1, start |-> current_time,
               allowed |-> TRUE, retry_after |-> 0]
         ELSE [branch |-> "incr", write |-> TRUE, count |-> seen.count + 1, start |-> seen.start,
               allowed |-> TRUE, retry_after |-> 0]
    ELSE [branch |-> "first", write |-> TRUE, count |-> 1, start |-> current_time,
          allowed |-> TRUE, retry_after |-> 0]

\* lines 56-70: the branch taken on what was read, the record it stores
\* (write = FALSE when it stores none) and the pair it returns
InMemoryDecide(seen, limit, window, current_time) ==
    IF seen.present
    THEN IF current_time - seen.start > Ticks(window)
         THEN [branch |-> "reset", write |-> TRUE, count |-> 1, start |-> current_time,
               allowed |-> TRUE, retry_after |-> 0]
         ELSE IF seen.count >= limit
         THEN [branch |-> "deny", write |-> FALSE, count |-> seen.count, start |-> seen.start,
               allowed |-> FALSE,
               retry_after |-> IntSeconds(seen.start + Ticks(window) - current_time)]
         ELSE [branch |-> "incr", write |-> TRUE, count |-> seen.count + 1, start |-> seen.start,
               allowed |-> TRUE, retry_after |-> 0]
    ELSE [branch |-> "first", write |-> TRUE, count |-> 1, start |-> current_time,
          allowed |-> TRUE, retry_after |-> 0]

\* InMemoryWrite with the stored count one ahead of the checks let in
InMemoryWriteAhead(records, identifier, d) ==
    IF d.write THEN Put(records, identifier, [count |-> d.count + 1, start |-> d.start])
    ELSE records

\* lines 60, 66, 69: the assignment to request_records[identifier]
InMemoryWrite(records, identifier, d) ==
    IF d.write THEN Put(records, identifier, [count |-> d.count, start |-> d.start])
    ELSE records

\* lines 72-74: data_store.get(key)
InMemoryGetData(store, key) == IF key \in DOMAIN store THEN store[key] ELSE None

\* lines 76-78: data_store[key] = value, ttl
InMemorySetData(store, key, value, ttl) == Put(store, key, Tuple(value, ttl))

\* ---- Redis -------------------------------------------------------------------
\* An entry is (val, exp): the bytes stored and the tick at which its time to
\* live ends, 0 for a key with no expiry.  The server drops a key once its
\* clock is past that tick (Tick), so every key of the keyspace is live.
RedisGet(r, key) == IF key \in DOMAIN r THEN r[key].val ELSE None

RedisSet(r, key, n) == Put(r, key, [val |-> Bytes(n), exp |-> 0])

RedisSetex(r, key, ttl, n, t) == Put(r, key, [val |-> Bytes(n), exp |-> t + Ticks(ttl)])

RedisExpire(r, key, ttl, t) ==
    IF key \in DOMAIN r THEN Put(r, key, [val |-> r[key].val, exp |-> t + Ticks(ttl)]) ELSE r

RedisIncr(r, key) ==
    IF key \in DOMAIN r
    THEN Put(r, key, [val |-> Bytes(Parse(r[key].val) + 1), exp |-> r[key].exp])
    ELSE Put(r, key, [val |-> Bytes(1), exp |-> 0])

\* the keys of the keyspace that are live at tick t: a key is still served at
\* the tick its time to live ends and gone at the next
Unexpired(r, t) == [k \in {x \in DOMAIN r : r[x].exp = 0 \/ t <= r[x].exp} |-> r[k]]

\* Python truth of a reply: None is false, the bytes of a number are not empty
Truthy(reply) == reply.tag # "None"

\* ---- RedisRateLimiter --------------------------------------------------------
\* CountKey with the identifier left out of the key
CountKeyShared(identifier) == <<"count", "">>

CountKey(identifier) == <<"count", identifier>>
StartKey(identifier) == <<"start", identifier>>

\* lines 93-96: the pipeline of two GETs
RedisRead(r, identifier) ==
    [count_bytes |-> RedisGet(r, CountKey(identifier)),
     start_bytes |-> RedisGet(r, StartKey(identifier))]

\* RedisDecide with a full window that lets one more check in (> for >=)
RedisDecideOneMore(seen, limit, window, current_time) ==
    IF Truthy(seen.count_bytes) /\ Truthy(seen.start_bytes)
    THEN LET count == Parse(seen.count_bytes)
             start == Parse(seen.start_bytes)
         IN  IF current_time - start > Ticks(window)
             THEN [branch |-> "reset", allowed |-> TRUE, retry_after |-> 0]
             ELSE IF count > limit
             THEN [branch |-> "deny", allowed |-> FALSE,
                   retry_after |-> IntSeconds(start + Ticks(window) - current_time)]
             ELSE [branch |-> "incr", allowed |-> TRUE, retry_after |-> 0]
    ELSE [branch |-> "first", allowed |-> TRUE, retry_after |-> 0]

\* lines 100-127: the branch taken on the two replies and the pair returned
RedisDecide(seen, limit, window, current_time) ==
    IF Truthy(seen.count_bytes) /\ Truthy(seen.start_bytes)
    THEN LET count == Parse(seen.count_bytes)
             start == Parse(seen.start_bytes)
         IN  IF current_time - start > Ticks(window)
             THEN [branch |-> "reset", allowed |-> TRUE, retry_after |-> 0]
             ELSE IF count >= limit
             THEN [branch |-> "deny", allowed |-> FALSE,
                   retry_after |-> IntSeconds(start + Ticks(window) - current_time)]
             ELSE [branch |-> "incr", allowed |-> TRUE, retry_after |-> 0]
    ELSE [branch |-> "first", allowed |-> TRUE, retry_after |-> 0]

\* lines 106-111 and 121-126 (SET, SET, EXPIRE, EXPIRE) and line 117 (INCR),
\* executed at tick t
RedisWrite(r, identifier, d, window, current_time, t) ==
    IF d.branch \in {"reset", "first"}
    THEN LET r1 == RedisSet(r, CountKey(identifier), 1)
             r2 == RedisSet(r1, StartKey(identifier), current_time)
             r3 == RedisExpire(r2, CountKey(identifier), window, t)
         IN  RedisExpire(r3, StartKey(identifier), window, t)
    ELSE IF d.branch = "incr" THEN RedisIncr(r, CountKey(identifier))
    ELSE r

\* lines 129-131: the reply of redis.get(key) is dropped
RedisGetData(r, key) == None

\* lines 133-135: SETEX when ttl is truthy, else SET
RedisSetData(r, key, n, ttl, t) ==
    IF ttl # 0 THEN RedisSetex(r, key, ttl, n, t) ELSE RedisSet(r, key, n)

\* ---- the storage backend of the token bucket's tests -----------------------
\* tests/test_rate_limiter.py gives TokenBucketRateLimiter a MagicMock for
\* storage: get_data returns what the test set up for the key, None
\* (test_first_request_allowed) or the text of a number ("2.5", "0.5",
\* str(old_time)); set_data records the call and stores nothing.
\* The token counts a test sets up, in half tokens:
MockHalfTokens == 0 .. 5

MockTokenReplies(window) == {None} \cup {Str(h * TicksPerSec * window) : h \in MockHalfTokens}

\* the last_update a test sets up: a time up to the time of the check
MockUpdateReplies(t) == {None} \cup {Str(u) : u \in 0 .. t}

\* ---- TokenBucketRateLimiter --------------------------------------------------
BucketKey(identifier) == <<"bucket", identifier>>
LastUpdateKey(identifier) == <<"last_update", identifier>>

\* one token, in the model's token units
TokenUnit(window) == 2 * TicksPerSec * window

\* line 170: refill_rate = requests_limit / window_seconds, as token units per tick
RefillPerTick(limit) == 2 * limit

\* line 171: self.bucket_capacity or requests_limit, in token units
\* (capacity is in half tokens; None and 0 are both false)
BucketCapacity(capacity, limit, window) ==
    IF capacity # 0 THEN capacity * TicksPerSec * window ELSE limit * TokenUnit(window)

\* Min with the refilled bucket not held to its capacity
MinUncapped(a, b) == a

Min(a, b) == IF a <= b THEN a ELSE b
Max(a, b) == IF a >= b THEN a ELSE b

\* lines 186-189: float(x) when x is a str; other values are left as they are
ToFloat(x) == IF x.tag = "str" THEN Num(Parse(x)) ELSE x

\* lines 201-204: max(1, int((1 - new_token_count) / refill_rate + 0.5))
RetryAfter(new_token_count, limit, window) ==
    LET twice_rate == 2 * TicksPerSec * limit  \* token units per second
    IN  Max(1, ((TokenUnit(window) - new_token_count) + TicksPerSec * limit) \div twice_rate)

\* TokenBucketDecide with a new bucket stored full, no token taken for the first check
TokenBucketDecideFull(tokens_read, update_read, capacity, limit, window, current_time) ==
    LET cap == BucketCapacity(capacity, limit, window) IN
    IF tokens_read.tag = "None" \/ update_read.tag = "None"
    THEN [branch |-> "first", raised |-> "", allowed |-> TRUE, retry_after |-> 0,
          set_tokens |-> TRUE, tokens |-> cap,
          set_update |-> TRUE, update |-> current_time]
    ELSE LET current_tokens == ToFloat(tokens_read)
             last_update == ToFloat(update_read)
         IN  IF current_tokens.tag # "num" \/ last_update.tag # "num"
             THEN [branch |-> "error", raised |-> "TypeError", allowed |-> FALSE, retry_after |-> 0,
                   set_tokens |-> FALSE, tokens |-> 0, set_update |-> FALSE, update |-> 0]
             ELSE LET time_elapsed == current_time - last_update.v
                      tokens_to_add == time_elapsed * RefillPerTick(limit)
                      new_token_count == Min(current_tokens.v + tokens_to_add, cap)
                  IN  IF new_token_count >= TokenUnit(window)
                      THEN [branch |-> "consume", raised |-> "", allowed |-> TRUE, retry_after |-> 0,
                            set_tokens |-> TRUE, tokens |-> new_token_count - TokenUnit(window),
                            set_update |-> TRUE, update |-> current_time]
                      ELSE [branch |-> "deny", raised |-> "", allowed |-> FALSE,
                            retry_after |-> RetryAfter(new_token_count, limit, window),
                            set_tokens |-> FALSE, tokens |-> current_tokens.v,
                            set_update |-> TRUE, update |-> current_time]

\* lines 170-204 on the two values read: what is raised (if anything), the pair
\* returned and the values stored (set_tokens / set_update say which are)
TokenBucketDecide(tokens_read, update_read, capacity, limit, window, current_time) ==
    LET cap == BucketCapacity(capacity, limit, window) IN
    IF tokens_read.tag = "None" \/ update_read.tag = "None"
    THEN [branch |-> "first", raised |-> "", allowed |-> TRUE, retry_after |-> 0,
          set_tokens |-> TRUE, tokens |-> cap - TokenUnit(window),
          set_update |-> TRUE, update |-> current_time]
    ELSE LET current_tokens == ToFloat(tokens_read)
             last_update == ToFloat(update_read)
         IN  IF current_tokens.tag # "num" \/ last_update.tag # "num"
             THEN \* line 191 / 193: arithmetic on a tuple or on bytes
                  [branch |-> "error", raised |-> "TypeError", allowed |-> FALSE, retry_after |-> 0,
                   set_tokens |-> FALSE, tokens |-> 0, set_update |-> FALSE, update |-> 0]
             ELSE LET time_elapsed == current_time - last_update.v
                      tokens_to_add == time_elapsed * RefillPerTick(limit)
                      new_token_count == Min(current_tokens.v + tokens_to_add, cap)
                  IN  IF new_token_count >= TokenUnit(window)
                      THEN [branch |-> "consume", raised |-> "", allowed |-> TRUE, retry_after |-> 0,
                            set_tokens |-> TRUE, tokens |-> new_token_count - TokenUnit(window),
                            set_update |-> TRUE, update |-> current_time]
                      ELSE [branch |-> "deny", raised |-> "", allowed |-> FALSE,
                            retry_after |-> RetryAfter(new_token_count, limit, window),
                            set_tokens |-> FALSE, tokens |-> current_tokens.v,
                            set_update |-> TRUE, update |-> current_time]

\* lines 150-152: self.storage.get_data(key) on each kind of backend
StorageGet(backend, key) ==
    IF backend = "InMemory" THEN InMemoryGetData(data_store, key)
    ELSE RedisGetData(redis, key)

\* is anything stored under the key
Stored(backend, key) ==
    CASE backend = "InMemory" -> key \in DOMAIN data_store
      [] backend = "Redis" -> key \in DOMAIN redis
      [] OTHER -> FALSE

\* ---- the state after construction ------------------------------------------
NoDecision ==
    [op |-> "none", identifier |-> "", limit |-> 0, window |-> 0, branch |-> "", raised |-> "",
     allowed |-> FALSE, retry_after |-> 0, fresh |-> FALSE, prev_level |-> 0, prev_time |-> 0,
     nth |-> 0, repeat |-> FALSE, reads |-> <<>>, writes |-> <<>>, asked |-> <<>>,
     twin |-> <<>>, at |-> 0,
     previous |-> [checked |-> FALSE, at |-> 0, denied |-> FALSE, retry_after |-> 0,
                   since |-> -1]]

\* the log of a check called directly that uses no storage backend: no
\* get_data reply, no set_data call, no wrapper that was asked for it, no
\* second limiter given the same call
NoLog == [reads |-> <<>>, writes |-> <<>>, asked |-> <<>>, twin |-> <<>>]

\* what the wrapper holds of its check: the arguments it gave and the pair it
\* got (line 268), or what the check raised
NoCheck == [made |-> FALSE, identifier |-> "", limit |-> 0, window |-> 0, raised |-> "",
            allowed |-> FALSE, retry_after |-> 0]

NoGate ==
    [op |-> "none", request |-> "", request_in |-> "", func_kind |-> "", func_result |-> "",
     raised |-> "", returned |-> "", func_calls |-> 0, check_calls |-> 0,
     status_code |-> 0, retry_header |-> None, stores_before |-> <<>>,
     pending |-> FALSE, check |-> NoCheck]

NoIO == [op |-> "none", backend |-> "", key |-> <<>>, value |-> 0, ttl |-> 0, got |-> None]

Threads == {"t1", "t2"}

\* a caller that is in no call.  Inside one it holds the arguments of the
\* call, what it has read so far (seen, current_time), the set_data calls it
\* has still to make, the decision it holds of another limiter, and the ticks
\* it has waited since its last step
Idle == [pc |-> "idle", identifier |-> "", limit |-> 0, window |-> 0, log |-> NoLog,
         current_time |-> 0, seen |-> <<>>, overtaken |-> FALSE, calls |-> <<>>,
         call |-> NoGate, waited |-> 0]

Backends(limiter) ==
    CASE limiter = "TokenBucket" -> {"InMemory", "Redis"}
      [] limiter = "FixedWindow" -> {"InMemory", "Redis"}
      [] OTHER -> {limiter}

\* nothing stored, nothing called yet
Unused ==
    /\ now = 0
    /\ request_records = EmptyDict
    /\ data_store = EmptyDict
    /\ redis = EmptyDict
    /\ decision = NoDecision
    /\ gate = NoGate
    /\ io = NoIO
    /\ written = EmptyDict
    /\ admitted = EmptyDict
    /\ threads = [t \in Threads |-> Idle]
    /\ latest = EmptyDict
    /\ admitted_at = EmptyDict

\* a limiter of src/ with the arguments of its constructor and of the checks
Setup ==
    /\ rate_limiter \in {"InMemory", "Redis", "TokenBucket", "FixedWindow"}
    /\ storage_backend \in Backends(rate_limiter)
    /\ requests_limit \in Limits
    /\ window_seconds \in Windows
    /\ bucket_capacity \in (IF rate_limiter = "TokenBucket" THEN Capacities ELSE {0})
    /\ jitter_seconds \in (IF rate_limiter = "FixedWindow" THEN Jitters ELSE {0})
    /\ Unused

\* no identifier's history is followed
Init == Setup /\ observed = {}

\* ---- histories ----------------------------------------------------------------
\* history: the check made for the identifier before this one
Previous(identifier) ==
    IF identifier \in DOMAIN latest THEN latest[identifier] ELSE NoDecision.previous

\* history: a check that read the clock at tick t becomes the identifier's
\* latest; since is the tick of the identifier's latest admitted check (-1
\* while none was admitted)
Remember(identifier, d, raised, t) ==
    IF identifier \in observed
    THEN Put(latest, identifier,
             [checked |-> TRUE, at |-> t, denied |-> raised = "" /\ ~d.allowed,
              retry_after |-> d.retry_after,
              since |-> IF raised = "" /\ d.allowed THEN t ELSE Previous(identifier).since])
    ELSE latest

\* history: an admitted check is logged at the tick t at which it read the clock
Admit(identifier, d, t) ==
    IF identifier \in observed /\ d.allowed
    THEN Put(admitted_at, identifier,
             (IF identifier \in DOMAIN admitted_at THEN admitted_at[identifier] ELSE <<>>)
             \o <<t>>)
    ELSE admitted_at

\* history: the logged ticks that lie within one window of tick t (all of
\* them for the token bucket, whose admissions are counted over any interval)
Recent(log, t) ==
    IF rate_limiter = "TokenBucket" THEN log
    ELSE [i \in DOMAIN log |-> SelectSeq(log[i], LAMBDA at : t - at <= Ticks(window_seconds))]

\* the admissions logged at ticks s .. e
Admissions(log, s, e) == Cardinality({n \in 1 .. Len(log) : s <= log[n] /\ log[n] <= e})

\* the log holds at most capacity + limit * T / window admissions in every
\* interval of length T up to tick t (both sides in token units)
WithinRate(log, t, capacity, limit, window) ==
    \A s \in 0 .. t : \A e \in s .. t :
        Admissions(log, s, e) * TokenUnit(window)
            <= BucketCapacity(capacity, limit, window) + (e - s) * RefillPerTick(limit)

\* history of the token bucket: an admitted check is logged at the tick t at
\* which it read the clock. The log starts again when the check found no
\* stored bucket (a new identifier, or entries that expired), and stops growing
\* once it holds more admissions than WithinRate allows.
AdmitBucket(identifier, d, absent, limit, window, t) ==
    LET log == IF absent \/ identifier \notin DOMAIN admitted_at THEN <<>>
               ELSE admitted_at[identifier]
    IN  IF identifier \in observed /\ d.raised = "" /\ d.allowed
           /\ WithinRate(log, now, bucket_capacity, limit, window)
        THEN Put(admitted_at, identifier, log \o <<t>>)
        ELSE admitted_at

\* the check a call returns from: what it was asked, the tick at which it read
\* the clock, the branch it took and what it returned or raised
Outcome(identifier, limit, window, d, raised, fresh, prev_level, prev_time, place, log) ==
    [op |-> "check", identifier |-> identifier, limit |-> limit, window |-> window, branch |-> d.branch,
     raised |-> raised, allowed |-> d.allowed, retry_after |-> d.retry_after,
     fresh |-> fresh, prev_level |-> prev_level, prev_time |-> prev_time,
     nth |-> place.nth, repeat |-> place.repeat, reads |-> log.reads, writes |-> log.writes,
     asked |-> log.asked, twin |-> log.twin, at |-> now, previous |-> Previous(identifier)]

\* history: a check that stored or kept the window start of the identifier's
\* record belongs to that record; one that stored a new start opens a record
SameWindow(adm, identifier, start) ==
    identifier \in DOMAIN adm /\ adm[identifier].start = start

Account(adm, identifier, d, start) ==
    IF SameWindow(adm, identifier, start)
    THEN Put(adm, identifier,
             [adm[identifier] EXCEPT !.n = IF d.allowed THEN @ + 1 ELSE @,
                                     !.denied = @ \/ ~d.allowed])
    ELSE Put(adm, identifier,
             [start |-> start, opened |-> d.branch, n |-> IF d.allowed THEN 1 ELSE 0,
              denied |-> ~d.allowed, raced |-> FALSE])

\* history: the place of a check among the checks of its window record (the
\* admitted ones before it, plus one), and whether one of them was denied
Position(adm, identifier, start) ==
    IF SameWindow(adm, identifier, start)
    THEN [nth |-> adm[identifier].n + 1, repeat |-> adm[identifier].denied]
    ELSE [nth |-> 1, repeat |-> FALSE]

\* ---- the limiters that work in the caller's process ----------------------------
\* InMemoryRateLimiter, and a limiter that wraps one, make no round trip: a
\* check runs from its first line to its return with nothing in between.
\* InMemoryRateLimiter.check_rate_limit(identifier, limit, window); log says
\* what a wrapper that made the call had been asked
InMemoryCheck(identifier, limit, window, log) ==
    LET seen == InMemoryRead(request_records, identifier)
        d == InMemoryDecide(seen, limit, window, now)
    IN  /\ request_records' = InMemoryWrite(request_records, identifier, d)
        /\ decision' = Outcome(identifier, limit, window, d, "", ~seen.present, seen.count,
                               seen.start, Position(admitted, identifier, d.start), log)
        /\ admitted' = Account(admitted, identifier, d, d.start)
        /\ latest' = Remember(identifier, d, "", now)
        /\ admitted_at' = Admit(identifier, d, now)
        /\ UNCHANGED <<data_store, redis>>

\* SetCalls with every check writing the token value as well, a deny included
SetCallsBoth(identifier, d, window) ==
    LET ttl == window * 2
    IN  <<[key |-> BucketKey(identifier), value |-> d.tokens, ttl |-> ttl],
          [key |-> LastUpdateKey(identifier), value |-> d.update, ttl |-> ttl]>>

\* lines 182-183, 197-198, 203: the set_data calls of a check, in the order
\* they are made, each with ttl = window_seconds * 2
SetCalls(identifier, d, window) ==
    LET ttl == window * 2
        set_bucket == [key |-> BucketKey(identifier), value |-> d.tokens, ttl |-> ttl]
        set_last_update == [key |-> LastUpdateKey(identifier), value |-> d.update, ttl |-> ttl]
    IN  (IF d.set_tokens THEN <<set_bucket>> ELSE <<>>)
        \o (IF d.set_update THEN <<set_last_update>> ELSE <<>>)

\* lines 154-156 on the default storage: InMemoryRateLimiter.set_data for each call
InMemoryBucketWrite(store, calls) ==
    LET After[i \in 0 .. Len(calls)] ==
            IF i = 0 THEN store
            ELSE InMemorySetData(After[i - 1], calls[i].key, calls[i].value, calls[i].ttl)
    IN  After[Len(calls)]

\* what is stored under a key of the backend, as a number (0 when nothing is)
StoredNumber(backend, key) ==
    CASE backend = "InMemory" -> IF key \in DOMAIN data_store THEN data_store[key].v ELSE 0
      [] backend = "Redis" -> IF key \in DOMAIN redis THEN redis[key].val.v ELSE 0
      [] OTHER -> 0

\* TokenBucketRateLimiter.check_rate_limit(identifier, limit, window) on its
\* default storage, an InMemoryRateLimiter (line 147)
TokenBucketCheck(identifier, limit, window) ==
    LET bk == BucketKey(identifier)
        lk == LastUpdateKey(identifier)
        current_tokens == InMemoryGetData(data_store, bk)
        last_update == InMemoryGetData(data_store, lk)
        d == TokenBucketDecide(current_tokens, last_update, bucket_capacity, limit, window, now)
        absent == bk \notin DOMAIN data_store \/ lk \notin DOMAIN data_store
    IN  /\ data_store' = InMemoryBucketWrite(data_store, SetCalls(identifier, d, window))
        /\ decision' = Outcome(identifier, limit, window, d, d.raised,
                               bk \notin DOMAIN data_store /\ lk \notin DOMAIN data_store,
                               StoredNumber("InMemory", bk), StoredNumber("InMemory", lk),
                               [nth |-> 0, repeat |-> FALSE],
                               [reads |-> <<current_tokens, last_update>>,
                                writes |-> SetCalls(identifier, d, window), asked |-> <<>>,
                                twin |-> <<>>])
        /\ latest' = Remember(identifier, d, d.raised, now)
        /\ admitted_at' = AdmitBucket(identifier, d, absent, limit, window, now)
        /\ UNCHANGED <<request_records, redis, admitted>>

\* TokenBucketRateLimiter.check_rate_limit over the MagicMock of the tests:
\* the two replies are what the test set up, set_data stores nothing
MockCheck(identifier, limit, window, tokens_reply, update_reply) ==
    LET d == TokenBucketDecide(tokens_reply, update_reply, bucket_capacity, limit, window, now)
    IN  /\ decision' = Outcome(identifier, limit, window, d, d.raised,
                               tokens_reply = None /\ update_reply = None, 0, 0,
                               [nth |-> 0, repeat |-> FALSE],
                               [reads |-> <<tokens_reply, update_reply>>,
                                writes |-> SetCalls(identifier, d, window), asked |-> <<>>,
                                twin |-> <<>>])
        /\ UNCHANGED <<stores, admitted, latest, admitted_at>>

\* JitteredWindows with the jitter taken off the window
JitteredWindowsShorter(window, jitter) ==
    IF jitter > 0 THEN {window - j : j \in 0 .. jitter} ELSE {window}

\* lines 220-222: window_seconds += random.randint(0, jitter_seconds) when jitter_seconds > 0
JitteredWindows(window, jitter) ==
    IF jitter > 0 THEN {window + j : j \in 0 .. jitter} ELSE {window}

\* the arguments FixedWindowRateLimiter.check_rate_limit was called with (line 219)
Asked(identifier, limit, window) ==
    [NoLog EXCEPT !.asked = <<[identifier |-> identifier, limit |-> limit, window |-> window]>>]

\* FixedWindowRateLimiter.check_rate_limit over an InMemoryRateLimiter: line
\* 224 delegates to the wrapped limiter
FixedWindowCheck(identifier, limit, window) ==
    \E jittered \in JitteredWindows(window, jitter_seconds) :
        InMemoryCheck(identifier, limit, jittered, Asked(identifier, limit, window))

\* the configured limiter makes no round trip
Local ==
    \/ rate_limiter = "InMemory"
    \/ rate_limiter \in {"TokenBucket", "FixedWindow"} /\ storage_backend = "InMemory"

\* rate_limiter.check_rate_limit(identifier, limit, window) on such a limiter
CheckRateLimit(identifier, limit, window) ==
    CASE rate_limiter = "InMemory" -> InMemoryCheck(identifier, limit, window, NoLog)
      [] rate_limiter = "TokenBucket" -> TokenBucketCheck(identifier, limit, window)
      [] OTHER -> FixedWindowCheck(identifier, limit, window)

\* ---- the steps ------------------------------------------------------------------
\* a caller that is inside a call (between two round trips, preempted, or
\* awaiting the wrapped operation) has so far waited less than MaxWait ticks
\* for its next step
NoneOverdue == \A t \in Threads : threads[t].pc # "idle" => threads[t].waited < MaxWait

\* the clock advances by one tick; Redis drops the keys whose time to live
\* has run out; the callers inside a call have waited one tick more
Tick ==
    /\ now < MaxTick
    /\ NoneOverdue
    /\ now' = now + 1
    /\ redis' = Unexpired(redis, now')
    /\ decision' = NoDecision
    /\ gate' = NoGate
    /\ io' = NoIO
    /\ admitted_at' = Recent(admitted_at, now')
    /\ threads' = [t \in Threads |->
                     IF threads[t].pc = "idle" THEN threads[t]
                     ELSE [threads[t] EXCEPT !.waited = @ + 1]]
    /\ UNCHANGED <<config, request_records, data_store, written, admitted, observed, latest>>

\* the caller of the checks that are made one after the other
Caller == "t1"

\* a caller checks an identifier against a limiter that makes no round trip
Check(identifier) ==
    /\ Local
    /\ CheckRateLimit(identifier, requests_limit, window_seconds)
    /\ gate' = NoGate
    /\ io' = NoIO
    /\ UNCHANGED <<config, now, written, threads, observed>>

vars == <<config, now, stores, decision, gate, io, written, admitted, threads, observed, latest, admitted_at>>

\* ---- the rate_limit decorator --------------------------------------------------
\* The arguments of a decorated call: the Request among the positional ones and
\* the Request among the keyword ones, each "none" when there is none.  A
\* Request is written as the client it comes from.
NoRequest == "none"
Requests == Identifiers

\* lines 251-261: the first positional Request, else the first keyword one
FindRequest(args_request, kwargs_request) ==
    IF args_request # NoRequest THEN args_request ELSE kwargs_request

\* identifier_func(request): the identifier of the request's client
IdentifierFunc(request) == [client |-> request].client

\* the result the wrapped operation returns
FuncResult == "success"

\* line 277: return await func(*args, **kwargs).  func is called; awaiting the
\* coroutine of an async def gives its result, awaiting the plain value a def
\* returned raises TypeError.
AwaitFunc(func_kind, func_result) ==
    IF func_kind = "async"
    THEN [func_calls |-> 1, raised |-> "", returned |-> func_result]
    ELSE [func_calls |-> 1, raised |-> "TypeError", returned |-> ""]

\* lines 270-275: HTTPException(429, headers = {"Retry-After": str(retry_after)})
TooManyRequests(retry_after) ==
    [status_code |-> 429, retry_header |-> Str(retry_after)]

\* NoRequestRaise answering a call without a Request with the 429 of a deny
NoRequestRaise429 == [raised |-> "HTTPException", status_code |-> 429]

\* lines 263-264: raise ValueError("No FastAPI Request object found in arguments")
NoRequestRaise == [raised |-> "ValueError", status_code |-> 0]

\* the task the event loop runs a new call in: one that is in no call
FreeTask ==
    IF \E t \in Threads : threads[t].pc = "idle"
    THEN CHOOSE t \in Threads : threads[t].pc = "idle"
    ELSE "none"

\* lines 250-277, up to the first suspension of the wrapped operation: the
\* wrapper looks for the Request, checks the limiter and raises, or calls
\* func.  A def has run and returned when the await of line 277 raises; the
\* coroutine of an async def is started and the call of task t stays pending
\* while it is suspended, during which the event loop runs other calls.
GateCall(t, args_request, kwargs_request, func_kind) ==
    LET request == FindRequest(args_request, kwargs_request)
        call == [op |-> "call", request |-> request,
                 request_in |-> IF args_request # NoRequest THEN "args"
                                ELSE IF kwargs_request # NoRequest THEN "kwargs" ELSE "none",
                 func_kind |-> func_kind, func_result |-> FuncResult,
                 raised |-> "", returned |-> "", func_calls |-> 0, check_calls |-> 0,
                 status_code |-> 0, retry_header |-> None,
                 stores_before |-> IF request = NoRequest THEN <<stores>> ELSE <<>>,
                 pending |-> FALSE, check |-> NoCheck]
    IN  /\ t = FreeTask
        /\ IF request = NoRequest
           THEN /\ gate' = [call EXCEPT !.raised = NoRequestRaise.raised,
                                         !.status_code = NoRequestRaise.status_code]
                /\ decision' = NoDecision
                /\ UNCHANGED <<stores, admitted, latest, admitted_at, threads>>
           ELSE /\ CheckRateLimit(IdentifierFunc(request), requests_limit, window_seconds)
                /\ LET checked == [call EXCEPT
                                      !.check_calls = 1,
                                      !.check = [made |-> TRUE,
                                                 identifier |-> decision'.identifier,
                                                 limit |-> decision'.limit,
                                                 window |-> decision'.window,
                                                 raised |-> decision'.raised,
                                                 allowed |-> decision'.allowed,
                                                 retry_after |-> decision'.retry_after]]
                       ended ==
                         IF decision'.raised # ""
                         THEN [checked EXCEPT !.raised = decision'.raised]
                         ELSE IF ~decision'.allowed
                         THEN [checked EXCEPT
                                 !.raised = "HTTPException",
                                 !.status_code = TooManyRequests(decision'.retry_after).status_code,
                                 !.retry_header = TooManyRequests(decision'.retry_after).retry_header]
                         ELSE IF func_kind = "async"
                         THEN [checked EXCEPT !.func_calls = 1, !.pending = TRUE]
                         ELSE LET done == AwaitFunc(func_kind, FuncResult)
                              IN  [checked EXCEPT !.raised = done.raised,
                                                  !.returned = done.returned,
                                                  !.func_calls = done.func_calls]
                   IN  /\ gate' = ended
                       /\ threads' = IF ended.pending
                                     THEN [threads EXCEPT ![t] =
                                             [Idle EXCEPT !.pc = "await",
                                                          !.identifier = ended.check.identifier]]
                                     ELSE threads
        /\ io' = NoIO
        /\ UNCHANGED <<config, now, written, observed>>

\* line 277: the wrapped coroutine of task t resumes and finishes; the wrapper
\* returns its result.  func was called once, when the call began.
GateReturn(t) ==
    LET me == threads[t]
        done == AwaitFunc("async", FuncResult)
    IN  /\ me.pc = "await"
        /\ gate' = [NoGate EXCEPT !.op = "return", !.request = me.identifier,
                                  !.func_kind = "async", !.func_result = FuncResult,
                                  !.check_calls = 1, !.func_calls = done.func_calls,
                                  !.raised = done.raised, !.returned = done.returned]
        /\ threads' = [threads EXCEPT ![t] = Idle]
        /\ decision' = NoDecision
        /\ io' = NoIO
        /\ UNCHANGED <<config, now, stores, written, admitted, observed, latest, admitted_at>>

\* ---- get_data / set_data called on a limiter used as a storage backend ---------
DataKeys == {<<"data", "k1">>, <<"data", "k2">>}
DataValues == {1, 2}
TTLs == {0, 1}

\* the time to live a set_data asks for, as an expiry tick (0: none)
Expiry(ttl, t) == IF ttl # 0 THEN t + Ticks(ttl) ELSE 0

SetData(key, value, ttl) ==
    /\ rate_limiter \in {"InMemory", "Redis"}
    /\ IF rate_limiter = "InMemory"
       THEN /\ data_store' = InMemorySetData(data_store, key, value, ttl)
            /\ UNCHANGED redis
       ELSE /\ redis' = RedisSetData(redis, key, value, ttl, now)
            /\ UNCHANGED data_store
    /\ written' = Put(written, key, [val |-> value, exp |-> Expiry(ttl, now)])
    /\ io' = [op |-> "set_data", backend |-> rate_limiter, key |-> key, value |-> value,
              ttl |-> ttl, got |-> None]
    /\ decision' = NoDecision
    /\ gate' = NoGate
    /\ UNCHANGED <<config, now, request_records, admitted, threads, observed, latest, admitted_at>>

GetData(key) ==
    /\ rate_limiter \in {"InMemory", "Redis"}
    /\ io' = [op |-> "get_data", backend |-> rate_limiter, key |-> key, value |-> 0,
              ttl |-> 0, got |-> StorageGet(rate_limiter, key)]
    /\ decision' = NoDecision
    /\ gate' = NoGate
    /\ UNCHANGED <<config, now, stores, written, admitted, threads, observed, latest, admitted_at>>

\* ---- concurrent callers of InMemoryRateLimiter.check_rate_limit -----------------
\* A thread may be preempted between any two statements: after it has read
\* the clock (line 54), after it has read the record (lines 56-57), and the
\* branch with its assignment (lines 59-70) runs on what it read.
ThreadBegin(t, identifier) ==
    /\ threads[t].pc = "idle"
    /\ threads' = [threads EXCEPT ![t] = [Idle EXCEPT !.pc = "read", !.identifier = identifier,
                                                      !.current_time = now]]
    /\ decision' = NoDecision
    /\ UNCHANGED <<config, now, stores, gate, io, written, admitted, observed, latest, admitted_at>>

ThreadRead(t) ==
    /\ threads[t].pc = "read"
    /\ threads' = [threads EXCEPT ![t].pc = "write",
                                  ![t].seen = InMemoryRead(request_records, threads[t].identifier),
                                  ![t].waited = 0]
    /\ decision' = NoDecision
    /\ UNCHANGED <<config, now, stores, gate, io, written, admitted, observed, latest, admitted_at>>

ThreadWrite(t) ==
    LET me == threads[t]
        d == InMemoryDecide(me.seen, requests_limit, window_seconds, me.current_time)
    IN  /\ me.pc = "write"
        /\ request_records' = InMemoryWrite(request_records, me.identifier, d)
        /\ admitted' = Account(admitted, me.identifier, d, d.start)
        /\ decision' = [Outcome(me.identifier, requests_limit, window_seconds, d, "",
                                ~me.seen.present, me.seen.count, me.seen.start,
                                Position(admitted, me.identifier, d.start), NoLog)
                        EXCEPT !.at = me.current_time]
        /\ threads' = [threads EXCEPT ![t] = Idle]
        /\ UNCHANGED <<config, now, data_store, redis, gate, io, written, observed, latest, admitted_at>>

\* ---- RedisRateLimiter.check_rate_limit, round trip by round trip ------------------
\* Each pipeline is one round trip that Redis executes as a unit, at the tick
\* at which it arrives; between the round trips of a caller the clock, and
\* the round trips of other callers, may go on.
\* lines 93-96: the pipeline of two GETs.  log says what a wrapper that made
\* the call had been asked
RedisThreadRead(t, identifier, limit, window, log) ==
    /\ threads[t].pc = "idle"
    /\ threads' = [threads EXCEPT ![t] = [Idle EXCEPT !.pc = "clock", !.identifier = identifier,
                                                      !.limit = limit, !.window = window,
                                                      !.log = log,
                                                      !.seen = RedisRead(redis, identifier)]]
    /\ decision' = NoDecision
    /\ UNCHANGED <<config, now, stores, gate, io, written, admitted, observed, latest, admitted_at>>

\* history: a write of one caller overtakes the others that have read the
\* identifier's keys and not yet written
Overtake(t, identifier, d) ==
    [u \in Threads |->
        IF u = t THEN Idle
        ELSE IF threads[u].pc # "idle" /\ threads[u].identifier = identifier /\ d.branch # "deny"
        THEN [threads[u] EXCEPT !.overtaken = TRUE]
        ELSE threads[u]]

\* history: the record a write lands in has been written to by a caller that
\* had been overtaken
Raced(adm, identifier, start, overtaken) ==
    overtaken \/ (SameWindow(adm, identifier, start) /\ adm[identifier].raced)

\* the call of caller t returns: d is the branch it took on what it had read,
\* at the time current_time it read from the clock
RedisReturn(t, d, current_time) ==
    LET me == threads[t]
        held == RedisRead(redis, me.identifier)
        start == IF d.branch \in {"first", "reset"} THEN current_time
                 ELSE IF Truthy(held.start_bytes) THEN Parse(held.start_bytes)
                 ELSE Parse(me.seen.start_bytes)
        counted == Account(admitted, me.identifier, d, start)
    IN  /\ admitted' = Put(counted, me.identifier,
                           [start |-> counted[me.identifier].start,
                            opened |-> counted[me.identifier].opened,
                            n |-> counted[me.identifier].n,
                            denied |-> counted[me.identifier].denied,
                            raced |-> Raced(admitted, me.identifier, start, me.overtaken)])
        /\ decision' = [Outcome(me.identifier, me.limit, me.window, d, "",
                                ~Truthy(me.seen.count_bytes) /\ ~Truthy(me.seen.start_bytes),
                                Parse(me.seen.count_bytes), Parse(me.seen.start_bytes),
                                Position(admitted, me.identifier, start),
                                [me.log EXCEPT !.reads = <<me.seen.count_bytes, me.seen.start_bytes>>])
                        EXCEPT !.at = current_time]
        /\ latest' = Remember(me.identifier, d, "", current_time)
        /\ admitted_at' = Admit(me.identifier, d, current_time)
        /\ threads' = Overtake(t, me.identifier, d)

\* line 98: current_time = time.time(), and the branch on what was read; the
\* deny of lines 112-114 returns with no further round trip
RedisThreadClock(t) ==
    LET me == threads[t]
        d == RedisDecide(me.seen, me.limit, me.window, now)
    IN  /\ me.pc = "clock"
        /\ IF d.branch = "deny"
           THEN RedisReturn(t, d, now)
           ELSE /\ threads' = [threads EXCEPT ![t].pc = "write", ![t].current_time = now,
                                              ![t].waited = 0]
                /\ decision' = NoDecision
                /\ UNCHANGED <<admitted, latest, admitted_at>>
        /\ UNCHANGED <<config, now, stores, gate, io, written, observed>>

\* lines 106-111 and 121-126 (the SET / EXPIRE pipeline) or line 117 (INCR):
\* the round trip of the branch taken, and the return
RedisThreadWrite(t) ==
    LET me == threads[t]
        d == RedisDecide(me.seen, me.limit, me.window, me.current_time)
    IN  /\ me.pc = "write"
        /\ redis' = RedisWrite(redis, me.identifier, d, me.window, me.current_time, now)
        /\ RedisReturn(t, d, me.current_time)
        /\ UNCHANGED <<config, now, request_records, data_store, gate, io, written, observed>>

\* ---- TokenBucketRateLimiter.check_rate_limit, call by call of its storage ----------
\* Over a RedisRateLimiter every get_data and every set_data of the check is a
\* round trip to Redis; on any storage a thread may be preempted between them.
\* line 176: current_tokens = self._get_bucket_data(bucket_key)
BucketGetTokens(t, identifier, limit, window) ==
    LET bk == BucketKey(identifier)
    IN  /\ threads[t].pc = "idle"
        /\ threads' = [threads EXCEPT ![t] =
                         [Idle EXCEPT !.pc = "get_update", !.identifier = identifier,
                                      !.limit = limit, !.window = window,
                                      !.seen = [tokens |-> StorageGet(storage_backend, bk),
                                                had_tokens |-> Stored(storage_backend, bk),
                                                prev_level |-> StoredNumber(storage_backend, bk)]]]
        /\ decision' = NoDecision
        /\ UNCHANGED <<config, now, stores, gate, io, written, admitted, observed, latest, admitted_at>>

\* line 177: last_update = self._get_bucket_data(last_update_key)
BucketGetUpdate(t) ==
    LET me == threads[t]
        lk == LastUpdateKey(me.identifier)
    IN  /\ me.pc = "get_update"
        /\ threads' = [threads EXCEPT ![t].pc = "bucket_clock", ![t].waited = 0,
                                      ![t].seen = [tokens |-> me.seen.tokens,
                                                   had_tokens |-> me.seen.had_tokens,
                                                   prev_level |-> me.seen.prev_level,
                                                   update |-> StorageGet(storage_backend, lk),
                                                   had_update |-> Stored(storage_backend, lk),
                                                   prev_time |-> StoredNumber(storage_backend, lk)]]
        /\ decision' = NoDecision
        /\ UNCHANGED <<config, now, stores, gate, io, written, admitted, observed, latest, admitted_at>>

\* the check of caller t returns
BucketReturn(t, d, current_time, sent) ==
    LET me == threads[t]
    IN  /\ decision' = [Outcome(me.identifier, me.limit, me.window, d, d.raised,
                                ~me.seen.had_tokens /\ ~me.seen.had_update,
                                me.seen.prev_level, me.seen.prev_time,
                                [nth |-> 0, repeat |-> FALSE],
                                [reads |-> <<me.seen.tokens, me.seen.update>>,
                                 writes |-> sent, asked |-> <<>>, twin |-> <<>>])
                        EXCEPT !.at = current_time]
        /\ latest' = Remember(me.identifier, d, d.raised, current_time)
        /\ admitted_at' = AdmitBucket(me.identifier, d,
                                      ~me.seen.had_tokens \/ ~me.seen.had_update,
                                      me.limit, me.window, current_time)
        /\ threads' = [threads EXCEPT ![t] = Idle]

\* line 179: current_time = time.time(), and lines 181-204 on the two values
\* read, up to the first set_data; the TypeError of line 191 / 193 ends the call
BucketClock(t) ==
    LET me == threads[t]
        d == TokenBucketDecide(me.seen.tokens, me.seen.update, bucket_capacity,
                               me.limit, me.window, now)
    IN  /\ me.pc = "bucket_clock"
        /\ IF d.raised # ""
           THEN BucketReturn(t, d, now, <<>>)
           ELSE /\ threads' = [threads EXCEPT ![t].pc = "set", ![t].current_time = now,
                                              ![t].waited = 0,
                                              ![t].calls = SetCalls(me.identifier, d, me.window)]
                /\ decision' = NoDecision
                /\ UNCHANGED <<latest, admitted_at>>
        /\ UNCHANGED <<config, now, stores, gate, io, written, admitted, observed>>

\* lines 154-156: the next self.storage.set_data(key, value, ttl) of the
\* check arrives; after the last one the check returns
BucketSet(t) ==
    LET me == threads[t]
        call == Head(me.calls)
        d == TokenBucketDecide(me.seen.tokens, me.seen.update, bucket_capacity,
                               me.limit, me.window, me.current_time)
    IN  /\ me.pc = "set"
        /\ IF storage_backend = "InMemory"
           THEN /\ data_store' = InMemorySetData(data_store, call.key, call.value, call.ttl)
                /\ UNCHANGED redis
           ELSE /\ redis' = RedisSetData(redis, call.key, call.value, call.ttl, now)
                /\ UNCHANGED data_store
        /\ IF Len(me.calls) = 1
           THEN BucketReturn(t, d, me.current_time, SetCalls(me.identifier, d, me.window))
           ELSE /\ threads' = [threads EXCEPT ![t].calls = Tail(me.calls), ![t].waited = 0]
                /\ decision' = NoDecision
                /\ UNCHANGED <<latest, admitted_at>>
        /\ UNCHANGED <<config, now, request_records, gate, io, written, admitted, observed>>

\* ---- checks made one after the other on a limiter that works over Redis ----------
\* the caller starts a check of the configured limiter: its first round trip
CallBegin(identifier) ==
    /\ ~Local
    /\ CASE rate_limiter = "Redis" ->
              RedisThreadRead(Caller, identifier, requests_limit, window_seconds, NoLog)
         [] rate_limiter = "FixedWindow" ->
              \* lines 220-224: the jittered window, and the call of the wrapped limiter
              \E jittered \in JitteredWindows(window_seconds, jitter_seconds) :
                  RedisThreadRead(Caller, identifier, requests_limit, jittered,
                                  Asked(identifier, requests_limit, window_seconds))
         [] OTHER -> BucketGetTokens(Caller, identifier, requests_limit, window_seconds)

\* the check the caller is in goes on by one step
CallStep ==
    \/ RedisThreadClock(Caller)
    \/ RedisThreadWrite(Caller)
    \/ BucketGetUpdate(Caller)
    \/ BucketClock(Caller)
    \/ BucketSet(Caller)

\* ---- the specifications ----------------------------------------------------------
\* a caller that checks identifiers against the configured limiter, one check
\* after the other
Next ==
    \/ Tick
    \/ \E identifier \in Identifiers : Check(identifier)
    \/ \E identifier \in Identifiers : CallBegin(identifier)
    \/ CallStep

Spec == Init /\ [][Next]_vars

\* decorated calls as tasks of one event loop, on the decorator's default
\* limiter (line 246) and on a token bucket with its default storage (line
\* 147), with the shortest of the windows
ShortestWindow == CHOOSE w \in Windows : \A v \in Windows : w <= v

InitGate ==
    /\ Init
    /\ window_seconds = ShortestWindow
    /\ \/ rate_limiter = "InMemory"
       \/ rate_limiter = "TokenBucket" /\ storage_backend = "InMemory" /\ bucket_capacity = 0

NextGate ==
    \/ Tick
    \/ \E t \in Threads, a \in Requests \cup {NoRequest}, k \in Requests \cup {NoRequest},
          f \in {"async", "sync"} : GateCall(t, a, k, f)
    \/ \E t \in Threads : GateReturn(t)

SpecGate == InitGate /\ [][NextGate]_vars

\* a limiter used as a storage backend
InitStore == Init /\ rate_limiter \in {"InMemory", "Redis"}

NextStore ==
    \/ Tick
    \/ \E key \in DataKeys, value \in DataValues, ttl \in TTLs : SetData(key, value, ttl)
    \/ \E key \in DataKeys : GetData(key)

SpecStore == InitStore /\ [][NextStore]_vars

\* threads that call check_rate_limit of one InMemoryRateLimiter, all for the
\* same identifier
Contended == "A"

InitConc == Init /\ rate_limiter = "InMemory"

NextConc ==
    \/ Tick
    \/ \E t \in Threads : ThreadBegin(t, Contended)
    \/ \E t \in Threads : ThreadRead(t)
    \/ \E t \in Threads : ThreadWrite(t)

SpecConc == InitConc /\ [][NextConc]_vars

\* callers that share one Redis through RedisRateLimiter, all checking the
\* same identifier, with the longest of the windows
LongestWindow == CHOOSE w \in Windows : \A v \in Windows : v <= w

InitRedisConc == Init /\ rate_limiter = "Redis" /\ window_seconds = LongestWindow

NextRedisConc ==
    \/ Tick
    \/ \E t \in Threads :
          RedisThreadRead(t, Contended, requests_limit, window_seconds, NoLog)
    \/ \E t \in Threads : RedisThreadClock(t)
    \/ \E t \in Threads : RedisThreadWrite(t)

SpecRedisConc == InitRedisConc /\ [][NextRedisConc]_vars

\* threads that call check_rate_limit of one TokenBucketRateLimiter, all for
\* the same identifier, with the shortest of the windows
InitBucketConc == Init /\ rate_limiter = "TokenBucket" /\ window_seconds = ShortestWindow

NextBucketConc ==
    \/ Tick
    \/ \E t \in Threads : BucketGetTokens(t, Contended, requests_limit, window_seconds)
    \/ \E t \in Threads : BucketGetUpdate(t)
    \/ \E t \in Threads : BucketClock(t)
    \/ \E t \in Threads : BucketSet(t)

SpecBucketConc == InitBucketConc /\ [][NextBucketConc]_vars

\* one caller that checks one identifier, again and again as time passes; the
\* histories follow that identifier
Watched == "A"

InitWatch == Setup /\ observed = {Watched}

NextWatch ==
    \/ Tick
    \/ Check(Watched)
    \/ CallBegin(Watched)
    \/ CallStep

SpecWatch == InitWatch /\ [][NextWatch]_vars

\* a TokenBucketRateLimiter whose storage is the MagicMock of the tests: each
\* check is given the two replies of get_data
InitMock ==
    /\ rate_limiter = "TokenBucket"
    /\ storage_backend = "Mock"
    /\ requests_limit \in Limits
    /\ window_seconds \in Windows
    /\ bucket_capacity \in Capacities
    /\ jitter_seconds = 0
    /\ Unused
    /\ observed = {}

NextMock ==
    \/ Tick
    \/ \E identifier \in Identifiers, tokens_reply \in MockTokenReplies(window_seconds),
          update_reply \in MockUpdateReplies(now) :
          /\ MockCheck(identifier, requests_limit, window_seconds, tokens_reply, update_reply)
          /\ gate' = NoGate
          /\ io' = NoIO
          /\ UNCHANGED <<config, now, written, threads, observed>>

SpecMock == InitMock /\ [][NextMock]_vars

\* an InMemoryRateLimiter and a RedisRateLimiter side by side: the caller
\* gives every check of one identifier to both, with the same arguments (the
\* configured limit and a window of its choice), and both read the same time
\* from the clock.
\* lines 93-96 of the RedisRateLimiter: its two GETs
PairRead(identifier, limit, window) ==
    RedisThreadRead(Caller, identifier, limit, window, NoLog)

\* the twin of a decision: what the RedisRateLimiter returned
Twin(redis_d) ==
    <<[allowed |-> redis_d.allowed, retry_after |-> redis_d.retry_after,
       branch |-> redis_d.branch]>>

\* the clock is read: the InMemoryRateLimiter makes its check (lines 53-70)
\* and the RedisRateLimiter takes its branch (line 98 on); its deny returns
PairClock ==
    LET me == threads[Caller]
        seen == InMemoryRead(request_records, me.identifier)
        d == InMemoryDecide(seen, me.limit, me.window, now)
        redis_d == RedisDecide(me.seen, me.limit, me.window, now)
        outcome == Outcome(me.identifier, me.limit, me.window, d, "", ~seen.present,
                           seen.count, seen.start, Position(admitted, me.identifier, d.start),
                           [NoLog EXCEPT !.twin = Twin(redis_d)])
    IN  /\ me.pc = "clock"
        /\ request_records' = InMemoryWrite(request_records, me.identifier, d)
        /\ admitted' = Account(admitted, me.identifier, d, d.start)
        /\ latest' = Remember(me.identifier, d, "", now)
        /\ admitted_at' = Admit(me.identifier, d, now)
        /\ IF redis_d.branch = "deny"
           THEN /\ decision' = outcome
                /\ threads' = [threads EXCEPT ![Caller] = Idle]
           ELSE /\ decision' = NoDecision
                /\ threads' = [threads EXCEPT ![Caller].pc = "write",
                                              ![Caller].current_time = now,
                                              ![Caller].waited = 0,
                                              ![Caller].call = outcome]
        /\ UNCHANGED <<config, now, data_store, redis, gate, io, written, observed>>

\* the write round trip of the RedisRateLimiter arrives, and the caller has
\* both decisions
PairWrite ==
    LET me == threads[Caller]
        redis_d == RedisDecide(me.seen, me.limit, me.window, me.current_time)
    IN  /\ me.pc = "write"
        /\ redis' = RedisWrite(redis, me.identifier, redis_d, me.window, me.current_time, now)
        /\ decision' = me.call
        /\ threads' = [threads EXCEPT ![Caller] = Idle]
        /\ UNCHANGED <<config, now, request_records, data_store, gate, io, written,
                       admitted, observed, latest, admitted_at>>

InitPair == Init /\ rate_limiter = "InMemory" /\ window_seconds = ShortestWindow

NextPair ==
    \/ Tick
    \/ \E window \in Windows : PairRead(Watched, requests_limit, window)
    \/ PairClock
    \/ PairWrite

SpecPair == InitPair /\ [][NextPair]_vars

\* ---- what the properties read ---------------------------------------------------
\* the backend that holds the fixed-window records of the configuration
WindowBackend == IF rate_limiter = "FixedWindow" THEN storage_backend ELSE rate_limiter

FixedWindowConfigured == rate_limiter \in {"InMemory", "Redis", "FixedWindow"}

\* the fixed-window record stored for an identifier
HasRecord(identifier) ==
    IF WindowBackend = "InMemory" THEN identifier \in DOMAIN request_records
    ELSE CountKey(identifier) \in DOMAIN redis /\ StartKey(identifier) \in DOMAIN redis

StoredRecord(identifier) ==
    IF WindowBackend = "InMemory"
    THEN [count |-> request_records[identifier].count, start |-> request_records[identifier].start]
    ELSE [count |-> Parse(redis[CountKey(identifier)].val),
          start |-> Parse(redis[StartKey(identifier)].val)]

\* the state the configured limiter keeps for an identifier
HasState(identifier) ==
    IF FixedWindowConfigured THEN HasRecord(identifier)
    ELSE /\ Stored(storage_backend, BucketKey(identifier))
         /\ Stored(storage_backend, LastUpdateKey(identifier))

Checked == decision.op = "check"
Returned == Checked /\ decision.raised = ""

\* ---- C1 ---------------------------------------------------------------------------
\* C1: InMemoryRateLimiter with limit L and window W, an identifier that had no
\* record: the first L checks made within W seconds of the first are allowed,
\* and the (L+1)-th check made within that window is denied with
\* 0 < retry_after <= W.
C1_MonotonicAdmission ==
    (/\ rate_limiter = "InMemory"
     /\ Returned
     /\ admitted[decision.identifier].opened = "first"
     /\ now - admitted[decision.identifier].start <= Ticks(window_seconds)
     /\ ~decision.repeat)
    => /\ decision.nth <= requests_limit => decision.allowed
       /\ decision.nth = requests_limit + 1 =>
            /\ ~decision.allowed
            /\ 0 < decision.retry_after
            /\ decision.retry_after <= window_seconds

\* ---- C2 ---------------------------------------------------------------------------
\* C2: whatever the limiter, a check for an identifier with no stored state
\* returns (True, 0) and leaves state stored for the identifier.
C2_FirstSeenAllowed ==
    (Checked /\ decision.fresh)
    => /\ decision.raised = ""
       /\ decision.allowed
       /\ decision.retry_after = 0
       /\ HasState(decision.identifier)

C2_Witness ==
    /\ Checked /\ decision.fresh
    /\ rate_limiter = "TokenBucket" /\ storage_backend = "Redis"
    /\ HasState(decision.identifier)

\* ---- C3 ---------------------------------------------------------------------------
\* C3: fixed-window limiter, a record whose window_start is more than the
\* window before now, the time the check reads from the clock: the check
\* returns (True, 0) and the record becomes (count = 1, window_start = now),
\* whatever the count was.
\* lines 56 and 100: the check found a record of the identifier; in memory the
\* identifier is in request_records, on Redis both replies of the GET
\* pipeline are truthy (a count read without a start is no record)
FoundRecord(d) ==
    IF Len(d.reads) = 2 THEN Truthy(d.reads[1]) /\ Truthy(d.reads[2]) ELSE ~d.fresh

\* lines 59 and 104, evaluated only on a record that was found
Expired(d) == FoundRecord(d) /\ d.at - d.prev_time > Ticks(d.window)

C3_WindowReset ==
    (FixedWindowConfigured /\ Checked /\ Expired(decision))
    => /\ decision.raised = ""
       /\ decision.allowed
       /\ decision.retry_after = 0
       /\ HasRecord(decision.identifier)
       /\ StoredRecord(decision.identifier) = [count |-> 1, start |-> decision.at]

C3_Witness ==
    /\ FixedWindowConfigured /\ Checked /\ Expired(decision)
    /\ decision.prev_level >= requests_limit
    /\ decision.prev_level > 1
    /\ StoredRecord(decision.identifier).count = 1

\* ---- C4 ---------------------------------------------------------------------------
\* C4: every decision a limiter returns has retry_after = 0 when it allows and
\* retry_after >= 1 when it denies.
C4_RetryAfterSign ==
    Returned => /\ decision.allowed => decision.retry_after = 0
                /\ ~decision.allowed => decision.retry_after >= 1

\* ---- C5 ---------------------------------------------------------------------------
\* C5: TokenBucketRateLimiter on its default storage with no configured
\* capacity: every check returns a decision; a check that finds less than one
\* token after refill is denied; a check made at least window / limit seconds
\* after the identifier's last check is allowed.
C5_TokenBucketSaturation ==
    (/\ rate_limiter = "TokenBucket" /\ storage_backend = "InMemory"
     /\ bucket_capacity = 0
     /\ Checked)
    => /\ decision.raised = ""
       /\ ~decision.fresh =>
            LET elapsed == now - decision.prev_time
                level == decision.prev_level + elapsed * RefillPerTick(requests_limit)
            IN  /\ level < TokenUnit(window_seconds) => ~decision.allowed
                /\ elapsed * requests_limit >= Ticks(window_seconds) => decision.allowed

\* ---- C6 ---------------------------------------------------------------------------
\* C6: InMemoryRateLimiter under concurrent callers: the number of checks
\* admitted into one window record never exceeds the limit.
C6_NoOverAdmission ==
    \A identifier \in DOMAIN admitted : admitted[identifier].n <= requests_limit

\* ---- C7 ---------------------------------------------------------------------------
\* C7: a decorated call that carries a Request calls check_rate_limit once, with
\* (identifier_func(request), requests_limit, window_seconds); allowed, the
\* wrapped operation runs once and its result is returned; denied, it does not
\* run and HTTPException 429 is raised with Retry-After = str(retry_after).
C7_GateContract ==
    /\ (gate.op = "call" /\ gate.request_in # "none")
       => /\ gate.check_calls = 1
          /\ gate.check.made
          /\ gate.check.identifier = IdentifierFunc(gate.request)
          /\ gate.check.limit = requests_limit
          /\ gate.check.window = window_seconds
          /\ (gate.check.raised = "" /\ gate.check.allowed) =>
               /\ gate.func_calls = 1
               /\ gate.raised = ""
               /\ gate.pending \/ gate.returned = gate.func_result
          /\ (gate.check.raised = "" /\ ~gate.check.allowed) =>
               /\ gate.func_calls = 0
               /\ gate.raised = "HTTPException"
               /\ gate.status_code = 429
               /\ gate.retry_header = Str(gate.check.retry_after)
    /\ gate.op = "return"
       => /\ gate.check_calls = 1
          /\ gate.func_calls = 1
          /\ gate.raised = ""
          /\ gate.returned = gate.func_result

\* ---- C8 ---------------------------------------------------------------------------
\* C8: a decorated call with no Request among its arguments raises ValueError,
\* not the 429 of a deny; check_rate_limit is not called, the limiter's state
\* is what it was, and the wrapped operation does not run.
C8_NoRequestUsageError ==
    (gate.op = "call" /\ gate.request_in = "none")
    => /\ gate.raised = "ValueError"
       /\ gate.status_code # 429
       /\ gate.check_calls = 0
       /\ ~Checked
       /\ gate.stores_before = <<stores>>
       /\ gate.func_calls = 0

C8_Witness ==
    /\ gate.op = "call" /\ gate.request_in = "none"
    /\ gate.raised = "ValueError"
    /\ request_records # EmptyDict

\* ---- C9 ---------------------------------------------------------------------------
\* C9: an admitted decorated call returns the wrapped operation's result, for
\* a plain function as for a coroutine function, and raises nothing.
C9_GateTransparent ==
    /\ (gate.op = "call" /\ gate.check.made /\ gate.check.raised = "" /\ gate.check.allowed)
       => \A kind \in {"sync", "async"} :
            gate.func_kind = kind
            => gate.raised = "" /\ (gate.pending \/ gate.returned = gate.func_result)
    /\ gate.op = "return" => gate.raised = "" /\ gate.returned = gate.func_result

\* ---- C10 --------------------------------------------------------------------------
\* C10: get_data of a key never set returns None; get_data of a key whose last
\* set_data has not expired returns the value that was set.
Unset(key) == key \notin DOMAIN written
Live(key) == key \in DOMAIN written /\ (written[key].exp = 0 \/ now <= written[key].exp)

C10_StorageRoundTrip ==
    io.op = "get_data"
    => /\ Unset(io.key) => io.got = None
       /\ Live(io.key) => io.got.tag \in {"num", "str", "bytes"} /\ io.got.v = written[io.key].val

\* ---- the token bucket, as the properties read it --------------------------------
TokenBucketConfigured == rate_limiter = "TokenBucket"

\* the capacity of the configuration in token units: the configured
\* bucket_capacity (half tokens), else the limit
Capacity == IF bucket_capacity # 0 THEN (bucket_capacity * TokenUnit(window_seconds)) \div 2
            ELSE requests_limit * TokenUnit(window_seconds)

\* the time to live an entry of the backend was stored with by a check that
\* read the clock at tick t: the ttl kept in the tuple in memory; on Redis the
\* time to live runs from the tick at which the SETEX arrived, between t and now
StoredWithTtl(backend, key, ttl, t) ==
    CASE backend = "InMemory" -> key \in DOMAIN data_store /\ data_store[key].ttl = ttl
      [] backend = "Redis" -> /\ key \in DOMAIN redis
                              /\ t + Ticks(ttl) <= redis[key].exp
                              /\ redis[key].exp <= now + Ticks(ttl)
      [] OTHER -> FALSE

\* ---- C11 --------------------------------------------------------------------------
\* C11: TokenBucketRateLimiter, an identifier with nothing stored: the check
\* returns (True, 0) and makes two set_data calls, after which the token value
\* stored for the identifier is capacity - 1 and the stored last_update is now,
\* both with ttl = 2 * window_seconds.
C11_BucketInitialised ==
    (TokenBucketConfigured /\ Checked /\ decision.fresh)
    => LET bk == BucketKey(decision.identifier)
           lk == LastUpdateKey(decision.identifier)
           ttl == 2 * window_seconds
       IN  /\ decision.raised = ""
           /\ decision.allowed
           /\ decision.retry_after = 0
           /\ decision.writes =
                 <<[key |-> bk, value |-> Capacity - TokenUnit(window_seconds), ttl |-> ttl],
                   [key |-> lk, value |-> decision.at, ttl |-> ttl]>>
           /\ Stored(storage_backend, bk)
           /\ StoredNumber(storage_backend, bk) = Capacity - TokenUnit(window_seconds)
           /\ StoredWithTtl(storage_backend, bk, ttl, decision.at)
           /\ Stored(storage_backend, lk)
           /\ StoredNumber(storage_backend, lk) = decision.at
           /\ StoredWithTtl(storage_backend, lk, ttl, decision.at)

C11_Witness ==
    /\ TokenBucketConfigured /\ Checked /\ decision.fresh
    /\ bucket_capacity = 0 /\ requests_limit = 2 /\ decision.at > 0
    /\ StoredNumber(storage_backend, BucketKey(decision.identifier)) = TokenUnit(window_seconds)
    /\ StoredNumber(storage_backend, LastUpdateKey(decision.identifier)) = decision.at

\* ---- C12 --------------------------------------------------------------------------
\* the two values a check read were a token count and a time
ReadBucket(d) ==
    /\ Len(d.reads) = 2
    /\ ToFloat(d.reads[1]).tag = "num"
    /\ ToFloat(d.reads[2]).tag = "num"

\* min(tokens + (now - last_update) * limit / window, capacity) on what the
\* check read, in token units
NewTokens(d) ==
    LET tokens == ToFloat(d.reads[1]).v
        elapsed == d.at - ToFloat(d.reads[2]).v
        refilled == tokens + (elapsed * d.limit * TokenUnit(d.window)) \div Ticks(d.window)
    IN  IF refilled <= Capacity THEN refilled ELSE Capacity

\* C12: TokenBucketRateLimiter, a check that finds
\* min(tokens + elapsed * refill_rate, capacity) < 1: it is denied and makes
\* one set_data call, last_update = now with ttl = 2 * window_seconds; no
\* set_data is made for the token value, which stays what it was.
C12_DenyWritesLastUpdateOnly ==
    (TokenBucketConfigured /\ Checked /\ ReadBucket(decision)
     /\ NewTokens(decision) < TokenUnit(window_seconds))
    => LET bk == BucketKey(decision.identifier)
           lk == LastUpdateKey(decision.identifier)
           ttl == 2 * window_seconds
       IN  /\ decision.raised = ""
           /\ ~decision.allowed
           /\ decision.writes = <<[key |-> lk, value |-> decision.at, ttl |-> ttl]>>
           /\ \A n \in 1 .. Len(decision.writes) : decision.writes[n].key # bk

C12_Witness ==
    /\ TokenBucketConfigured /\ Checked /\ ReadBucket(decision)
    /\ NewTokens(decision) < TokenUnit(window_seconds)
    /\ ~decision.allowed
    /\ ToFloat(decision.reads[2]).v < decision.at
    /\ ToFloat(decision.reads[1]).v > 0
    /\ Len(decision.writes) = 1

\* ---- C13 --------------------------------------------------------------------------
\* C13: the token value stored for an identifier by a TokenBucketRateLimiter
\* is between 0 and the capacity, whatever bucket_capacity is configured.
C13_BucketInvariant ==
    TokenBucketConfigured
    => \A identifier \in Identifiers :
         Stored(storage_backend, BucketKey(identifier))
         => /\ 0 <= StoredNumber(storage_backend, BucketKey(identifier))
            /\ StoredNumber(storage_backend, BucketKey(identifier)) <= Capacity

\* ---- C14 --------------------------------------------------------------------------
\* what the wrapped limiter had stored for the identifier before the check
SeenBefore(d) ==
    IF WindowBackend = "InMemory"
    THEN [present |-> ~d.fresh, count |-> d.prev_level, start |-> d.prev_time]
    ELSE [count_bytes |-> d.reads[1], start_bytes |-> d.reads[2]]

\* one call wrapped.check_rate_limit(identifier, limit, window) on that, at
\* the time the check read from the clock: the pair it returns and the record
\* it leaves
WrappedOnce(d, window) ==
    IF WindowBackend = "InMemory"
    THEN LET r == InMemoryDecide(SeenBefore(d), d.limit, window, d.at)
         IN  [allowed |-> r.allowed, retry_after |-> r.retry_after,
              record |-> [count |-> r.count, start |-> r.start]]
    ELSE LET r == RedisDecide(SeenBefore(d), d.limit, window, d.at)
         IN  [allowed |-> r.allowed, retry_after |-> r.retry_after,
              record |-> CASE r.branch \in {"first", "reset"} -> [count |-> 1, start |-> d.at]
                           [] r.branch = "incr" -> [count |-> d.prev_level + 1, start |-> d.prev_time]
                           [] OTHER -> [count |-> d.prev_level, start |-> d.prev_time]]

\* C14: FixedWindowRateLimiter with jitter_seconds = J: a check calls the
\* wrapped limiter once, with the identifier and the limit it was given and a
\* window between window_seconds and window_seconds + J (window_seconds when
\* J <= 0), and returns what that call returns; the record stored for the
\* identifier is the one that call leaves (on Redis, while its keys last).
C14_JitterDelegation ==
    (rate_limiter = "FixedWindow" /\ Checked)
    => /\ decision.raised = ""
       /\ Len(decision.asked) = 1
       /\ decision.asked[1].identifier = decision.identifier
       /\ decision.asked[1].limit = requests_limit
       /\ decision.limit = decision.asked[1].limit
       /\ decision.asked[1].window = window_seconds
       /\ window_seconds <= decision.window
       /\ decision.window <= window_seconds + (IF jitter_seconds > 0 THEN jitter_seconds ELSE 0)
       /\ decision.allowed = WrappedOnce(decision, decision.window).allowed
       /\ decision.retry_after = WrappedOnce(decision, decision.window).retry_after
       /\ WindowBackend = "InMemory" => HasRecord(decision.identifier)
       /\ HasRecord(decision.identifier)
            => StoredRecord(decision.identifier) = WrappedOnce(decision, decision.window).record

C14_Witness ==
    /\ rate_limiter = "FixedWindow" /\ Checked
    /\ jitter_seconds = 1
    /\ decision.window = window_seconds + 1
    /\ ~decision.allowed
    /\ WrappedOnce(decision, window_seconds).allowed

\* ---- C15 --------------------------------------------------------------------------
\* every check is made with the same window
ConstantWindow == rate_limiter # "FixedWindow" \/ jitter_seconds <= 0

\* C15: a check denied at time t with retry_after = r, followed by no check
\* for the identifier until t + r or later: the check made then, with the same
\* limit and window, is allowed.
C15_DenyRecoverable ==
    (/\ ConstantWindow
     /\ Returned
     /\ decision.previous.denied
     /\ decision.at >= decision.previous.at + Ticks(decision.previous.retry_after))
    => decision.allowed

\* ---- C16 --------------------------------------------------------------------------
\* the longest time to live a check asks of the backend, in seconds: the
\* window of the fixed-window record (jitter included), twice the window for
\* the entries of a bucket
TimeToLive ==
    IF TokenBucketConfigured THEN 2 * window_seconds
    ELSE window_seconds + (IF jitter_seconds > 0 THEN jitter_seconds ELSE 0)

\* anything the limiter keeps for the identifier
Tracked(identifier) ==
    IF TokenBucketConfigured
    THEN \/ Stored(storage_backend, BucketKey(identifier))
         \/ Stored(storage_backend, LastUpdateKey(identifier))
    ELSE IF WindowBackend = "InMemory" THEN identifier \in DOMAIN request_records
    ELSE CountKey(identifier) \in DOMAIN redis \/ StartKey(identifier) \in DOMAIN redis

\* the identifier has no call under way
Quiet(identifier) ==
    \A t \in Threads : threads[t].pc = "idle" \/ threads[t].identifier # identifier

\* the ticks a call may take from reading its clock to its last write: two
\* waits (the token bucket reads the clock, then makes two set_data calls)
WriteDelay == 2 * MaxWait

\* C16: whatever the limiter and the backend, once the time to live has
\* run out since the latest check of an identifier wrote its state, and no
\* call for it is under way, nothing is stored for it.
C16_PassiveExpiry ==
    \A identifier \in DOMAIN latest :
        (/\ Quiet(identifier)
         /\ now > latest[identifier].at + Ticks(TimeToLive) + WriteDelay)
        => ~Tracked(identifier)

\* ---- C19 --------------------------------------------------------------------------
\* C19: fixed-window limiter with a constant limit L and window W, checks
\* made one after the other: the checks admitted for an identifier in any
\* interval of length W are at most 2 * L.
C19_BoundaryBurst ==
    (FixedWindowConfigured /\ ConstantWindow)
    => \A identifier \in DOMAIN admitted_at :
         /\ \A n \in 1 .. Len(admitted_at[identifier]) :
              now - admitted_at[identifier][n] <= Ticks(window_seconds)
         /\ Len(admitted_at[identifier]) <= 2 * requests_limit

\* a burst across the boundary of two windows: the last check of one window
\* and a full window after it, admitted within one window's length
C19_Witness ==
    /\ FixedWindowConfigured /\ ConstantWindow
    /\ requests_limit = 2
    /\ Checked /\ decision.allowed /\ decision.nth = requests_limit
    /\ admitted[Watched].opened = "reset"
    /\ Len(admitted_at[Watched]) = 2 * requests_limit - 1
    /\ admitted_at[Watched][1] < admitted_at[Watched][2]

\* ---- C17 --------------------------------------------------------------------------
\* C17: TokenBucketRateLimiter over a RedisRateLimiter: a check for an
\* identifier whose entries are stored and unexpired reads back the tokens and
\* the last_update (it does not start a new bucket), so with less than one
\* token stored and no time elapsed since the last update it is denied: a
\* burst admits at most capacity checks.
C17_BucketOverRedis ==
    (/\ TokenBucketConfigured /\ storage_backend = "Redis"
     /\ Checked /\ ~decision.fresh)
    => /\ decision.raised = ""
       /\ ReadBucket(decision)
       /\ ToFloat(decision.reads[1]).v = decision.prev_level
       /\ ToFloat(decision.reads[2]).v = decision.prev_time
       /\ (decision.prev_time = decision.at /\ decision.prev_level < TokenUnit(window_seconds))
            => ~decision.allowed

\* ---- C18 --------------------------------------------------------------------------
\* C18: TokenBucketRateLimiter, a check that reads a bucket (tokens,
\* last_update): with new_tokens = min(tokens + (now - last_update) * limit /
\* window, capacity), if new_tokens >= 1 it returns (True, 0) and stores
\* tokens = new_tokens - 1 and last_update = now, each by a set_data with
\* ttl = 2 * window; otherwise it denies.
C18_RefillAndConsume ==
    (TokenBucketConfigured /\ Checked /\ ReadBucket(decision))
    => LET bk == BucketKey(decision.identifier)
           lk == LastUpdateKey(decision.identifier)
           ttl == 2 * window_seconds
           left == NewTokens(decision) - TokenUnit(window_seconds)
       IN  /\ decision.raised = ""
           /\ IF NewTokens(decision) >= TokenUnit(window_seconds)
              THEN /\ decision.allowed
                   /\ decision.retry_after = 0
                   /\ decision.writes = <<[key |-> bk, value |-> left, ttl |-> ttl],
                                          [key |-> lk, value |-> decision.at, ttl |-> ttl]>>
              ELSE ~decision.allowed

C18_Witness ==
    /\ TokenBucketConfigured /\ Checked /\ ReadBucket(decision)
    /\ decision.allowed
    /\ ToFloat(decision.reads[2]).v < decision.at
    /\ ToFloat(decision.reads[1]).v
         + ((decision.at - ToFloat(decision.reads[2]).v) * requests_limit
            * TokenUnit(window_seconds)) \div Ticks(window_seconds) > Capacity
    /\ decision.writes[1].value = Capacity - TokenUnit(window_seconds)

\* ---- C20 --------------------------------------------------------------------------
\* C20: RedisRateLimiter reads (count, start) and writes in separate round
\* trips, so concurrent checks of one identifier can be admitted beyond the
\* limit within one window; a window takes more than limit checks only when
\* one of them was written by a caller that another caller's write had
\* overtaken between its read and its write.
C20_RedisRace ==
    (rate_limiter = "Redis" /\ Contended \in DOMAIN admitted
     /\ admitted[Contended].n > requests_limit)
    => admitted[Contended].raced

C20_Witness ==
    /\ rate_limiter = "Redis"
    /\ Checked /\ decision.allowed
    /\ decision.nth > requests_limit
    /\ admitted[Contended].n > requests_limit
    /\ now - admitted[Contended].start <= Ticks(window_seconds)
    /\ admitted[Contended].raced

\* ---- C21 --------------------------------------------------------------------------
\* C21: InMemoryRateLimiter with a constant limit L, checks made one after the
\* other: every stored record has 1 <= count <= L, its count is the number of
\* checks admitted for the identifier since its window_start, and a denied
\* check leaves the record as it was.
C21_CountInvariant ==
    rate_limiter = "InMemory"
    => /\ \A identifier \in DOMAIN request_records :
            /\ 1 <= request_records[identifier].count
            /\ request_records[identifier].count <= requests_limit
            /\ identifier \in DOMAIN admitted
            /\ admitted[identifier].start = request_records[identifier].start
            /\ admitted[identifier].n = request_records[identifier].count
       /\ (Checked /\ ~decision.allowed)
            => /\ ~decision.fresh
               /\ request_records[decision.identifier]
                    = [count |-> decision.prev_level, start |-> decision.prev_time]

C21_Witness ==
    /\ rate_limiter = "InMemory"
    /\ Checked /\ ~decision.allowed
    /\ requests_limit = 2
    /\ request_records[decision.identifier].count = 2
    /\ request_records[decision.identifier].start > 0
    /\ admitted[decision.identifier].opened = "reset"

\* ---- C22 --------------------------------------------------------------------------
\* everything the limiters store for an identifier
StateOf(identifier) ==
    [record |-> InMemoryRead(request_records, identifier),
     count |-> IF CountKey(identifier) \in DOMAIN redis THEN <<redis[CountKey(identifier)]>> ELSE <<>>,
     start |-> IF StartKey(identifier) \in DOMAIN redis THEN <<redis[StartKey(identifier)]>> ELSE <<>>,
     bucket |-> [backend \in {"InMemory", "Redis"} |->
                   <<Stored(backend, BucketKey(identifier)),
                     StoredNumber(backend, BucketKey(identifier)),
                     Stored(backend, LastUpdateKey(identifier)),
                     StoredNumber(backend, LastUpdateKey(identifier))>>]]

\* C22: every step of a check for an identifier (the check that returns with
\* the step, or the one the caller is in after it) leaves what is stored for
\* every other identifier as it was: its fixed-window record, its tokens and
\* last_update.
C22_IdentifierIsolation ==
    [][now' = now
       => \A other \in Identifiers \ {decision'.identifier, threads'[Caller].identifier} :
            StateOf(other)' = StateOf(other)]_vars

C22_Witness ==
    /\ Checked /\ decision.raised = "" /\ ~decision.allowed
    /\ \E other \in Identifiers \ {decision.identifier} :
         /\ HasState(other)
         /\ rate_limiter = "TokenBucket" => StoredNumber(storage_backend, BucketKey(other)) > 0
         /\ FixedWindowConfigured => StoredRecord(other).count < requests_limit

\* ---- C23 --------------------------------------------------------------------------
\* the check was made at least W / L seconds after the identifier's latest
\* admitted check: (at - since) / TicksPerSec >= W / L
RefilledSinceAdmitted ==
    /\ decision.previous.since >= 0
    /\ (decision.at - decision.previous.since) * decision.limit >= Ticks(decision.window)

\* C23: token bucket with constant limit L and window W: a check for an
\* identifier made at least W / L seconds after that identifier's latest
\* admitted check is allowed, however many denied checks lie in between.
C23_RefillDespiteDenies ==
    (TokenBucketConfigured /\ Checked /\ RefilledSinceAdmitted)
    => (decision.raised = "" /\ decision.allowed)

\* ---- C24 --------------------------------------------------------------------------
\* C24: token bucket with constant limit L, window W and capacity C, checks
\* made one after the other, stored entries not expired: in any time interval
\* of length T at most C + L * T / W checks of one identifier are admitted.
C24_RateBound ==
    TokenBucketConfigured
    => \A identifier \in DOMAIN admitted_at :
         WithinRate(admitted_at[identifier], now, bucket_capacity, requests_limit, window_seconds)

\* ---- C25 --------------------------------------------------------------------------
\* C25: given the same checks (identifiers, limit, the window of each check,
\* time), with the Redis keys gone once their time to live has run out,
\* RedisRateLimiter returns the same (allowed, retry_after) as
\* InMemoryRateLimiter.
C25_SameDecisions ==
    (Checked /\ decision.twin # <<>>)
    => /\ decision.twin[1].allowed = decision.allowed
       /\ decision.twin[1].retry_after = decision.retry_after

====
